---------------------------- MODULE Spec2Model ----------------------------
(* A model of anytype2csv (src/anytype2csv_utils.py): the record loader,   *)
(* the reference resolver read_rel_option, the field decoder read_data,    *)
(* the index builder build_cache and the projector proto_to_csv.           *)
(*                                                                         *)
(* Strings are TLA+ strings (\o is Python's +).  A file tree is a function *)
(* from collection name and file stem to a file; a protobuf message is a   *)
(* record with the three parts the program reads: snapshot.data.key,       *)
(* snapshot.data.details.fields and snapshot.data.relationLinks.           *)
EXTENDS Integers, Sequences, FiniteSets, TLC

VARIABLES
    fs,               \* the extracted tree: fs[dir][stem] is a file
    unknown_types,    \* dict field key -> count
    unknown_options,  \* dict reference key -> count
    pc,               \* position of the running operation
    option,           \* argument of the last read_rel_option call
    ret,              \* value returned by the last call
    missed,           \* history: per key, calls that found it nowhere
    ncalls,           \* number of calls made so far
    my_cache,         \* build_cache: the index built so far
    obj,              \* build_cache: position in ['types', 'relations', 'objects']
    files,            \* build_cache: sorted files of the collection still to visit
    dict1,            \* build_cache: dict1 of the collection being scanned
    dict2,            \* build_cache: dict2 of the collection being scanned
    indexed,          \* history: relation records indexed, in visiting order
    proto_data,       \* read_data: the record passed, as the call left it
    field,            \* read_data: the field key passed
    value,            \* read_data: the value returned
    messages,         \* proto_to_csv: proto_data_list, the loaded object records
    types_to_extract, \* proto_to_csv: the type filter, or None
    fields_to_extract,\* proto_to_csv: the field allowlist, or None
    ridx,             \* proto_to_csv: position in proto_data_list
    df,               \* proto_to_csv: the rows collected
    csv,              \* the output file
    loaded,           \* history: the object records as loaded
    exported,         \* history: for each row of df, the position of its record
    decoded,          \* history: the read_data calls proto_to_csv made
    walk,             \* os.walk: per collection, the files in the order listed
    rewalk,           \* os.walk: the listing met by a second build_cache call
    rebuilt,          \* the index returned by the second build_cache call
    filepath,         \* load_single_message_from_file: the path passed
    message           \* load_single_message_from_file: the outcome of the call

callVars == <<option, ret, missed, ncalls>>
buildVars == <<my_cache, obj, files, dict1, dict2, indexed, walk, rewalk, rebuilt>>
loadVars == <<filepath, message>>
decodeVars == <<proto_data, field, value>>
projectVars ==
    <<messages, types_to_extract, fields_to_extract, ridx, df, csv, loaded,
      exported, decoded>>

vars ==
    <<fs, unknown_types, unknown_options, pc, option, ret, missed, ncalls,
      my_cache, obj, files, dict1, dict2, indexed, proto_data, field, value,
      messages, types_to_extract, fields_to_extract, ridx, df, csv, loaded,
      exported, decoded, walk, rewalk, rebuilt, filepath, message>>

-----------------------------------------------------------------------------
(* Bounds of the model. *)

MaxCalls == 2
MaxRelFiles == 3
MaxDecodes == 2
MaxList == 3
MaxRecords == 3

-----------------------------------------------------------------------------
(* Python values. *)

\* dict.get(k, default)
DictGet(d, k, default) == IF k \in DOMAIN d THEN d[k] ELSE default

\* d[k] = v
DictSet(d, k, v) == [x \in (DOMAIN d) \cup {k} |-> IF x = k THEN v ELSE d[x]]

EmptyDict == [x \in {} |-> 0]

\* google.protobuf.Value: a oneof; each accessor gives its type's zero when
\* the value is of another kind.
DefaultValue ==
    [kind |-> "null", string_value |-> "", number_value |-> 0,
     bool_value |-> FALSE, list_value |-> <<>>]

StringValue(s) == [DefaultValue EXCEPT !.kind = "string", !.string_value = s]
NumberValue(n) == [DefaultValue EXCEPT !.kind = "number", !.number_value = n]
BoolValue(b) == [DefaultValue EXCEPT !.kind = "bool", !.bool_value = b]
\* a list of string values
ListValue(keys) ==
    [DefaultValue EXCEPT !.kind = "list",
                         !.list_value = [i \in DOMAIN keys |-> StringValue(keys[i])]]

\* SnapshotWithType(): the empty message
EmptyMessage == [key |-> "", fields |-> EmptyDict, relationLinks |-> <<>>]

\* What a function returning "message or None" returns.
None == [some |-> FALSE, msg |-> EmptyMessage, exc |-> ""]
Some(m) == [some |-> TRUE, msg |-> m, exc |-> ""]
\* The call left by an exception e that no handler caught.
Raised(e) == [some |-> FALSE, msg |-> EmptyMessage, exc |-> e]

\* Files of the tree: no such file, a file protobuf cannot parse, a record.
AbsentFile == [st |-> "absent", msg |-> EmptyMessage]
CorruptFile == [st |-> "corrupt", msg |-> EmptyMessage]
RecordFile(m) == [st |-> "ok", msg |-> m]
\* A file cut short: ParseFromString merges m into the message, then raises.
TruncatedFile(m) == [st |-> "corrupt", msg |-> m]

\* The map access fields[k] of a protobuf message map: the entry, or a
\* default Value when there is none.
FieldsGet(fields, k) == DictGet(fields, k, DefaultValue)

\* The map after the access fields[k]: a message map inserts the default
\* entry it returns for a key it does not hold.
FieldsTouch(fields, k) ==
    IF k \in DOMAIN fields THEN fields ELSE DictSet(fields, k, DefaultValue)

\* msg.snapshot.data.details.fields['name'].string_value
NameOf(m) == FieldsGet(m.fields, "name").string_value

-----------------------------------------------------------------------------
(* load_single_message_from_file *)

\* The try block: open() raises IOError on a missing file, ParseFromString
\* raises DecodeError on a corrupt one, after filling message in part.
TryLoad(tree, dir, stem) ==
    IF stem \notin DOMAIN tree[dir] THEN [exc |-> "IOError", msg |-> EmptyMessage]
    ELSE IF tree[dir][stem].st = "ok" THEN [exc |-> "", msg |-> tree[dir][stem].msg]
    ELSE [exc |-> "DecodeError", msg |-> tree[dir][stem].msg]

\* The handlers of a loader that has "except IOError" alone.
load_single_message_from_file_ioerror_only(tree, dir, stem) ==
    LET t == TryLoad(tree, dir, stem)
    IN  IF t.exc = "" THEN Some(t.msg)
        ELSE IF t.exc = "IOError" THEN None
        ELSE Raised(t.exc)

\* "except IOError" returns None; "except Exception" prints and returns None.
load_single_message_from_file(tree, dir, stem) ==
    LET t == TryLoad(tree, dir, stem)
    IN  IF t.exc = "" THEN Some(t.msg)
        ELSE IF t.exc = "IOError" THEN None
        ELSE None

-----------------------------------------------------------------------------
(* read_rel_option *)

search_paths_reversed == <<"types", "relations", "objects", "relationsOptions">>

search_paths == <<"relationsOptions", "objects", "relations", "types">>

\* for filepath in search_paths: msg = load(filepath); if msg is not None: break
RECURSIVE ProbeFrom(_, _, _)
ProbeFrom(tree, opt, i) ==
    IF i > Len(search_paths) THEN None
    ELSE LET msg == load_single_message_from_file(tree, search_paths[i], opt)
         IN  IF msg.some THEN msg ELSE ProbeFrom(tree, opt, i + 1)

\* The call's result: the returned string and the unknown_options dict after.
read_rel_option_nocount(opt, tree, uo) ==
    IF opt = "" THEN [ret |-> "", unknown_options |-> uo]
    ELSE LET msg == ProbeFrom(tree, opt, 1)
         IN  IF ~msg.some
             THEN [ret |-> "", unknown_options |-> DictSet(uo, opt, 1)]
             ELSE [ret |-> NameOf(msg.msg), unknown_options |-> uo]

read_rel_option(opt, tree, uo) ==
    IF opt = "" THEN [ret |-> "", unknown_options |-> uo]
    ELSE LET msg == ProbeFrom(tree, opt, 1)
         IN  IF ~msg.some
             THEN [ret |-> "",
                   unknown_options |-> DictSet(uo, opt, DictGet(uo, opt, 0) + 1)]
             ELSE [ret |-> NameOf(msg.msg), unknown_options |-> uo]

-----------------------------------------------------------------------------
(* read_data *)

\* What read_data returns: a str, a float, a bool or a datetime.
PyStr(s) == [t |-> "str", s |-> s, n |-> 0, b |-> FALSE]
PyNum(n) == [t |-> "float", s |-> "", n |-> n, b |-> FALSE]
PyBool(b) == [t |-> "bool", s |-> "", n |-> 0, b |-> b]
\* datetime.fromtimestamp(n): the local date and time of the instant n
PyDate(n) == [t |-> "datetime", s |-> "", n |-> n, b |-> FALSE]

\* The names of RelationFormat that read_data has a case for.
StringFormats ==
    {"longtext", "shorttext", "file", "url", "email", "phone", "emoji", "relations"}
KnownFormats ==
    StringFormats \cup {"number", "status", "tag", "object", "date", "checkbox"}

\* A search that takes the first declared format whatever its key.
FindLink_anykey(links, fld, i) ==
    IF i > Len(links) THEN [found |-> FALSE, format |-> ""]
    ELSE [found |-> TRUE, format |-> links[i].format]

\* for i in relationLinks: if i.key == field: fld_format = i.format; break
RECURSIVE FindLink(_, _, _)
FindLink(links, fld, i) ==
    IF i > Len(links) THEN [found |-> FALSE, format |-> ""]
    ELSE IF links[i].key = fld THEN [found |-> TRUE, format |-> links[i].format]
    ELSE FindLink(links, fld, i + 1)

\* The loop of the status, tag and object cases, from entry i on:
\*   if ret != "": ret += ', ' + read_rel_option(...)
\*   else:         ret = read_rel_option(...)
RECURSIVE JoinOptions(_, _, _, _, _)
JoinOptions(values, i, acc, tree, uo) ==
    IF i > Len(values) THEN [ret |-> acc, unknown_options |-> uo]
    ELSE LET r == read_rel_option(values[i].string_value, tree, uo)
         IN  JoinOptions(values, i + 1,
                         IF acc # "" THEN acc \o ", " \o r.ret ELSE r.ret,
                         tree, r.unknown_options)

\* An object case that reads the list alone.
ObjectValue_listonly(fld, tree, uo) == JoinOptions(fld.list_value, 1, "", tree, uo)

\* case RelationFormat.object: the loop if fld.list_value.values is not
\* empty, else read_rel_option(fld.string_value, ...).
ObjectValue(fld, tree, uo) ==
    IF fld.list_value # <<>>
    THEN JoinOptions(fld.list_value, 1, "", tree, uo)
    ELSE read_rel_option(fld.string_value, tree, uo)

\* A default case that records the field without counting.
CountUnknown_flag(ut, fld_key) == DictSet(ut, fld_key, 1)

\* unknown_types[field] = unknown_types.get(field, 0) + 1
CountUnknown(ut, fld_key) == DictSet(ut, fld_key, DictGet(ut, fld_key, 0) + 1)

\* The call's result: the returned value, both dicts after, and the fields
\* map of the record after (line 116 reads fields[field] before anything).
read_data(data, fld_key, tree, ut, uo) ==
    LET fld == FieldsGet(data.fields, fld_key)
        after == FieldsTouch(data.fields, fld_key)
        link == FindLink(data.relationLinks, fld_key, 1)
        out(v, ut2, uo2) ==
            [ret |-> v, unknown_types |-> ut2, unknown_options |-> uo2,
             fields |-> after]
        fmt == link.format
    IN  IF ~link.found THEN out(PyStr(""), ut, uo)
        ELSE IF fmt \in StringFormats THEN out(PyStr(fld.string_value), ut, uo)
        ELSE IF fmt = "number" THEN out(PyNum(fld.number_value), ut, uo)
        ELSE IF fmt \in {"status", "tag"}
             THEN LET r == JoinOptions(fld.list_value, 1, "", tree, uo)
                  IN  out(PyStr(r.ret), ut, r.unknown_options)
        ELSE IF fmt = "object"
             THEN LET r == ObjectValue(fld, tree, uo)
                  IN  out(PyStr(r.ret), ut, r.unknown_options)
        ELSE IF fmt = "date" THEN out(PyDate(fld.number_value), ut, uo)
        ELSE IF fmt = "checkbox" THEN out(PyBool(fld.bool_value), ut, uo)
        ELSE out(PyStr(""), CountUnknown(ut, fld_key), uo)

-----------------------------------------------------------------------------
(* build_cache *)

Digits == <<"0", "1", "2", "3", "4", "5", "6", "7", "8", "9">>

\* str(i) of a non-negative integer
RECURSIVE Str(_)
Str(n) == IF n < 10 THEN Digits[n + 1] ELSE Str(n \div 10) \o Digits[(n % 10) + 1]

\* The file stems of the model in sorted() order.
StemOrder == <<"o1", "o2", "o3", "o4", "r1", "r2", "r3", "r4", "r5", "t1", "t2", "x", "y", "zz">>

\* sorted(files) for the files of one collection
RECURSIVE SortedFrom(_, _)
SortedFrom(S, i) ==
    IF i > Len(StemOrder) THEN <<>>
    ELSE IF StemOrder[i] \in S THEN <<StemOrder[i]>> \o SortedFrom(S, i + 1)
    ELSE SortedFrom(S, i + 1)

\* "for file in files": the files in the order os.walk lists them.
sorted_as_listed(listing) == listing

\* sorted(files)
sorted(listing) == SortedFrom({listing[i] : i \in DOMAIN listing}, 1)

\* The files of one collection in the order build_cache visits them; w is
\* what os.walk lists.
SortedFiles(w, dir) == sorted(w[dir])

\* while name in dict1: name = name0 + str(i); i += 1
RECURSIVE FreeName(_, _, _, _)
FreeName_accumulating(d1, name0, name, i) ==
    IF name \in DOMAIN d1 THEN FreeName(d1, name0, name \o Str(i), i + 1) ELSE name

FreeName(d1, name0, name, i) ==
    IF name \in DOMAIN d1 THEN FreeName(d1, name0, name0 \o Str(i), i + 1) ELSE name

\* i = 1; name = name0; the loop
UniqueName_from2(d1, name0) == FreeName(d1, name0, name0, 2)

UniqueName(d1, name0) == FreeName(d1, name0, name0, 1)

\* case 'relations' as the earlier variant (src/any2csv_utils.py) has it
RelationEntry_overwriting(d1, d2, m) ==
    [dict1 |-> DictSet(d1, NameOf(m), m.key),
     dict2 |-> DictSet(d2, m.key, NameOf(m))]

\* An entry whose revrel side keeps the record's own name, unsuffixed.
RelationEntry_ownname(d1, d2, m) ==
    [dict1 |-> DictSet(d1, UniqueName(d1, NameOf(m)), m.key),
     dict2 |-> DictSet(d2, m.key, NameOf(m))]

\* case 'relations': dict1[name] = key; dict2[key] = name
RelationEntry(d1, d2, m) ==
    LET name == UniqueName(d1, NameOf(m))
    IN  [dict1 |-> DictSet(d1, name, m.key),
         dict2 |-> DictSet(d2, m.key, name)]

\* case 'types' | 'objects': dict1[file[0:-3]] = name
StemEntry(d1, d2, stem, m) ==
    [dict1 |-> DictSet(d1, stem, NameOf(m)), dict2 |-> d2]

Collections == <<"types", "relations", "objects">>

\* The body of the loop over the files of one collection.  msg is None for
\* a file that does not load, and msg.snapshot then raises AttributeError,
\* which nothing catches.
FileStep(tree, dir, stem, d1, d2) ==
    LET msg == load_single_message_from_file(tree, dir, stem)
    IN  IF ~msg.some
        THEN [raised |-> TRUE, dict1 |-> d1, dict2 |-> d2]
        ELSE LET e == IF dir = "relations"
                      THEN RelationEntry(d1, d2, msg.msg)
                      ELSE StemEntry(d1, d2, stem, msg.msg)
             IN  [raised |-> FALSE, dict1 |-> e.dict1, dict2 |-> e.dict2]

\* my_cache[obj] = dict1, and my_cache['revrel'] = dict2 for relations
StoreCollection(cache, dir, d1, d2) ==
    IF dir = "relations"
    THEN DictSet(DictSet(cache, dir, d1), "revrel", d2)
    ELSE DictSet(cache, dir, d1)

\* The loop over the sorted files of one collection, run to its end.
RECURSIVE ScanFiles(_, _, _, _, _)
ScanFiles(tree, dir, todo, d1, d2) ==
    IF todo = <<>> THEN [raised |-> FALSE, dict1 |-> d1, dict2 |-> d2]
    ELSE LET r == FileStep(tree, dir, Head(todo), d1, d2)
         IN  IF r.raised THEN r
             ELSE ScanFiles(tree, dir, Tail(todo), r.dict1, r.dict2)

\* build_cache from collection i on: the index, or the exception raised.
RECURSIVE BuildFrom(_, _, _, _)
BuildFrom(tree, w, i, cache) ==
    IF i > Len(Collections) THEN [raised |-> FALSE, cache |-> cache]
    ELSE LET dir == Collections[i]
             r == ScanFiles(tree, dir, SortedFiles(w, dir), EmptyDict, EmptyDict)
         IN  IF r.raised THEN [raised |-> TRUE, cache |-> cache]
             ELSE BuildFrom(tree, w, i + 1,
                            StoreCollection(cache, dir, r.dict1, r.dict2))

\* build_cache over the tree, os.walk listing its collections as w does.
build_cache(tree, w) == BuildFrom(tree, w, 1, EmptyDict)

-----------------------------------------------------------------------------
(* build_csv and proto_to_csv *)

\* An optional list argument: None, or a list of strings.
NoList == [given |-> FALSE, items |-> <<>>]
ListOf(items) == [given |-> TRUE, items |-> items]

\* The output path: no file there, or the table written to it.
NoFile == [written |-> FALSE, rows |-> <<>>]

\* build_csv's loop over the sorted object files: those that load.
RECURSIVE LoadMessages(_, _)
LoadMessages(tree, todo) ==
    IF todo = <<>> THEN <<>>
    ELSE LET msg == load_single_message_from_file(tree, "objects", Head(todo))
         IN  (IF msg.some THEN <<msg.msg>> ELSE <<>>)
                 \o LoadMessages(tree, Tail(todo))

\* The test on 'Object type': where proto_to_csv goes, and objtyperel.
proto_to_csv_start_fallback(cache) ==
    IF "Object type" \in DOMAIN cache["relations"]
    THEN [pc |-> "p2c_loop", objtyperel |-> cache["relations"]["Object type"]]
    ELSE [pc |-> "p2c_loop", objtyperel |-> ""]

proto_to_csv_start(cache) ==
    IF "Object type" \in DOMAIN cache["relations"]
    THEN [pc |-> "p2c_loop", objtyperel |-> cache["relations"]["Object type"]]
    ELSE [pc |-> "p2c_returned", objtyperel |-> ""]

\* x in items, for a value read_data returned and a list of strings
InList(v, items) == v.t = "str" /\ \E i \in DOMAIN items : items[i] = v.s

\* Whether the record goes on to a row: not (value not in types_to_extract).
PassesTypeFilter_inverted(v, tf) == ~InList(v, tf.items)

PassesTypeFilter(v, tf) == InList(v, tf.items)

\* key = my_cache['revrel'].get(i, i)
ColumnOf(cache, i) == DictGet(cache["revrel"], i, i)

\* not (fields_to_extract is not None and key not in fields_to_extract)
FieldAllowed(key, ff) == ~ff.given \/ \E i \in DOMAIN ff.items : ff.items[i] = key

\* A row loop that decodes every field before the allowlist test.
RowKeys_all(data, cache, ff) == DOMAIN data.fields

\* The keys of fld.keys() for which the row loop reaches read_data: those
\* whose column name passes the allowlist test.
RowKeys(data, cache, ff) ==
    {i \in DOMAIN data.fields : FieldAllowed(ColumnOf(cache, i), ff)}

\* The counters after read_data has been called once for each key of todo.
RECURSIVE DecodeEach(_, _, _, _, _)
DecodeEach(data, todo, tree, ut, uo) ==
    IF todo = {} THEN [unknown_types |-> ut, unknown_options |-> uo]
    ELSE LET i == CHOOSE i \in todo : TRUE
             r == read_data(data, i, tree, ut, uo)
         IN  DecodeEach(data, todo \ {i}, tree, r.unknown_types, r.unknown_options)

-----------------------------------------------------------------------------
(* What os.walk may list for a tree: the files of each collection in any *)
(* order.                                                                 *)

RECURSIVE Perms(_)
Perms(S) ==
    IF S = {} THEN {<<>>}
    ELSE UNION {{<<x>> \o p : p \in Perms(S \ {x})} : x \in S}

Listings(tree) ==
    {[types |-> a, relations |-> b, relationsOptions |-> c, objects |-> d] :
        a \in Perms(DOMAIN tree["types"]),
        b \in Perms(DOMAIN tree["relations"]),
        c \in Perms(DOMAIN tree["relationsOptions"]),
        d \in Perms(DOMAIN tree["objects"])}

RECURSIVE Reversed(_)
Reversed(q) == IF q = <<>> THEN <<>> ELSE Append(Reversed(Tail(q)), Head(q))

\* Two listings: every collection in file-name order, and in the reverse.
Ascending(tree) == [d \in DOMAIN tree |-> SortedFrom(DOMAIN tree[d], 1)]
Descending(tree) == [d \in DOMAIN tree |-> Reversed(SortedFrom(DOMAIN tree[d], 1))]

-----------------------------------------------------------------------------
(* Values of the variables an operation does not use. *)

NoCall ==
    /\ option = ""
    /\ ret = ""
    /\ missed = EmptyDict
    /\ ncalls = 0

NoDecode ==
    /\ proto_data = EmptyMessage
    /\ field = ""
    /\ value = PyStr("")

NoProject ==
    /\ messages = <<>>
    /\ types_to_extract = NoList
    /\ fields_to_extract = NoList
    /\ ridx = 0
    /\ df = <<>>
    /\ csv = NoFile
    /\ loaded = <<>>
    /\ exported = <<>>
    /\ decoded = {}

NoBuild ==
    /\ my_cache = EmptyDict
    /\ obj = 0
    /\ files = <<>>
    /\ dict1 = EmptyDict
    /\ dict2 = EmptyDict
    /\ indexed = <<>>
    /\ walk = <<>>
    /\ rewalk = <<>>
    /\ rebuilt = EmptyDict

NoLoad ==
    /\ filepath = <<>>
    /\ message = None

-----------------------------------------------------------------------------
(* Specification SpecResolve: read_rel_option called on a fixed tree. *)

Dirs == {"types", "relations", "relationsOptions", "objects"}

ResolveStems == {"x", "y"}
ResolveKeys == {"", "x", "y"}
ResolveNames == {"Red", "Blue"}

\* A record that carries only a name.
NamedMessage(n) == [EmptyMessage EXCEPT !.fields = "name" :> StringValue(n)]

ResolveFiles ==
    {AbsentFile, CorruptFile} \cup {RecordFile(NamedMessage(n)) : n \in ResolveNames}

\* A tree given as a total function holds the files that are not absent.
TreeOf(f) ==
    [d \in Dirs |->
        [s \in {t \in DOMAIN f[d] : f[d][t].st # "absent"} |-> f[d][s]]]

InitResolve ==
    /\ \E f \in [Dirs -> [ResolveStems -> ResolveFiles]] : fs = TreeOf(f)
    /\ unknown_types = EmptyDict
    /\ unknown_options = EmptyDict
    /\ pc = "resolve"
    /\ option = ""
    /\ ret = ""
    /\ missed = [k \in ResolveKeys |-> 0]
    /\ ncalls = 0
    /\ NoBuild
    /\ NoDecode
    /\ NoProject
    /\ NoLoad

\* Whether the record loader gives a record for key k in collection d.
Loads(tree, d, k) ==
    /\ k \in DOMAIN tree[d]
    /\ tree[d][k].st = "ok"

Resolve(k) ==
    /\ pc = "resolve"
    /\ ncalls < MaxCalls
    /\ LET r == read_rel_option(k, fs, unknown_options)
       IN  /\ ret' = r.ret
           /\ unknown_options' = r.unknown_options
    /\ option' = k
    /\ ncalls' = ncalls + 1
    /\ missed' = IF k # "" /\ \A d \in Dirs : ~Loads(fs, d, k)
                 THEN [missed EXCEPT ![k] = @ + 1] ELSE missed
    /\ UNCHANGED <<fs, unknown_types, pc>>
    /\ UNCHANGED buildVars
    /\ UNCHANGED decodeVars
    /\ UNCHANGED projectVars
    /\ UNCHANGED loadVars

NextResolve == \E k \in ResolveKeys : Resolve(k)

SpecResolve == InitResolve /\ [][NextResolve]_vars

-----------------------------------------------------------------------------
(* Specification SpecBuild: build_cache, one file or one collection a step. *)

RelStemOrder == <<"r1", "r2", "r3", "r4", "r5">>
RelStems == {RelStemOrder[i] : i \in 1..MaxRelFiles}
RelNames == {"A", "A1", "B"}
RelKeys == {"k1", "k2"}

\* A relation record: its name and its internal key.
RelationMessage(n, k) ==
    [EmptyMessage EXCEPT !.key = k, !.fields = "name" :> StringValue(n)]

RelFiles ==
    {AbsentFile, CorruptFile}
        \cup {RecordFile(RelationMessage(n, k)) : n \in RelNames, k \in RelKeys}

BuildTrees ==
    {TreeOf([types |-> [s \in {"t1"} |-> t],
             relations |-> r,
             relationsOptions |-> [s \in {} |-> AbsentFile],
             objects |-> [s \in {"o1"} |-> o]]) :
        t \in {AbsentFile, CorruptFile, RecordFile(NamedMessage("T"))},
        r \in [RelStems -> RelFiles],
        o \in {AbsentFile, CorruptFile, RecordFile(NamedMessage("O"))}}

InitBuild ==
    /\ fs \in BuildTrees
    /\ unknown_types = EmptyDict
    /\ unknown_options = EmptyDict
    /\ pc = "build"
    /\ NoCall
    /\ NoDecode
    /\ NoProject
    /\ my_cache = EmptyDict
    /\ obj = 1
    /\ walk \in {Ascending(fs), Descending(fs)}
    /\ files = SortedFiles(walk, Collections[1])
    /\ dict1 = EmptyDict
    /\ dict2 = EmptyDict
    /\ indexed = <<>>
    /\ rewalk = <<>>
    /\ rebuilt = EmptyDict
    /\ NoLoad

\* One iteration of "for file in sorted(files)".
BuildVisit ==
    /\ pc = "build"
    /\ files # <<>>
    /\ LET dir == Collections[obj]
           stem == Head(files)
           r == FileStep(fs, dir, stem, dict1, dict2)
       IN  IF r.raised
           THEN /\ pc' = "raised"
                /\ UNCHANGED <<files, dict1, dict2, indexed>>
           ELSE /\ pc' = pc
                /\ files' = Tail(files)
                /\ dict1' = r.dict1
                /\ dict2' = r.dict2
                /\ indexed' =
                     IF dir = "relations"
                     THEN Append(indexed,
                                 [stem |-> stem,
                                  base |-> NameOf(fs[dir][stem].msg),
                                  key |-> fs[dir][stem].msg.key,
                                  name |-> r.dict2[fs[dir][stem].msg.key]])
                     ELSE indexed
    /\ UNCHANGED <<fs, unknown_types, unknown_options, my_cache, obj>>
    /\ UNCHANGED <<walk, rewalk, rebuilt>>
    /\ UNCHANGED callVars
    /\ UNCHANGED decodeVars
    /\ UNCHANGED projectVars
    /\ UNCHANGED loadVars

\* The end of one collection: its dicts go into my_cache; the next collection
\* starts with fresh dicts, and after the last one build_cache returns.
BuildStore ==
    /\ pc = "build"
    /\ files = <<>>
    /\ my_cache' = StoreCollection(my_cache, Collections[obj], dict1, dict2)
    /\ IF obj < Len(Collections)
       THEN /\ obj' = obj + 1
            /\ files' = SortedFiles(walk, Collections[obj + 1])
            /\ dict1' = EmptyDict
            /\ dict2' = EmptyDict
            /\ pc' = pc
       ELSE /\ pc' = "built"
            /\ UNCHANGED <<obj, files, dict1, dict2>>
    /\ UNCHANGED <<fs, unknown_types, unknown_options, indexed>>
    /\ UNCHANGED <<walk, rewalk, rebuilt>>
    /\ UNCHANGED callVars
    /\ UNCHANGED decodeVars
    /\ UNCHANGED projectVars
    /\ UNCHANGED loadVars

NextBuild == BuildVisit \/ BuildStore

SpecBuild == InitBuild /\ [][NextBuild]_vars

-----------------------------------------------------------------------------
(* Specification SpecDecode: read_data called on records of one field. *)

\* x may be a relation option and y a type; either may carry an empty name.
DecodeTrees ==
    {TreeOf([types |-> [s \in {"y"} |-> fy],
             relations |-> [s \in {} |-> AbsentFile],
             relationsOptions |-> [s \in {"x"} |-> fx],
             objects |-> [s \in {} |-> AbsentFile]]) :
        fx \in {AbsentFile, RecordFile(NamedMessage("Red")), RecordFile(NamedMessage(""))},
        fy \in {AbsentFile, RecordFile(NamedMessage("Blue")), RecordFile(NamedMessage(""))}}

ListKeys == {"", "x", "y"}

\* The sequences over S of length at most n.
SeqsUpTo(S, n) == UNION {[1..k -> S] : k \in 0..n}

ListValues == {ListValue(l) : l \in SeqsUpTo(ListKeys, MaxList)}

ScalarValues ==
    {DefaultValue, StringValue("x"), StringValue("y"), NumberValue(7), BoolValue(TRUE)}

\* A format number that RelationFormat has no case for in read_data.
AllFormats == KnownFormats \cup {"unrecognized"}

\* A record whose fields map is flds and which declares format fmt for key k.
Declaring(flds, k, fmt) ==
    [EmptyMessage EXCEPT !.fields = flds,
                         !.relationLinks = <<[key |-> k, format |-> fmt]>>]

\* Records for the field key "f": a list under the formats that read lists
\* (and two that do not), a scalar or no value at all under every format,
\* and values with no declared format for "f".
DecodeRecords ==
    {Declaring("f" :> v, "f", fmt) :
        v \in ListValues,
        fmt \in {"status", "tag", "object", "shorttext", "unrecognized"}}
    \cup {Declaring("f" :> v, "f", fmt) : v \in ScalarValues, fmt \in AllFormats}
    \cup {Declaring(EmptyDict, "f", fmt) : fmt \in AllFormats}
    \cup {Declaring("f" :> v, "g", "tag") :
            v \in {StringValue("x"), ListValue(<<"x", "y">>)}}
    \cup {[EmptyMessage EXCEPT !.fields = "f" :> StringValue("x")], EmptyMessage}

InitDecode ==
    /\ fs \in DecodeTrees
    /\ unknown_types = EmptyDict
    /\ unknown_options = EmptyDict
    /\ pc = "decode"
    /\ NoCall
    /\ NoBuild
    /\ NoDecode
    /\ NoProject
    /\ NoLoad

Decode(data, k) ==
    /\ pc = "decode"
    /\ ncalls < MaxDecodes
    /\ LET r == read_data(data, k, fs, unknown_types, unknown_options)
       IN  /\ value' = r.ret
           /\ unknown_types' = r.unknown_types
           /\ unknown_options' = r.unknown_options
           /\ proto_data' = [data EXCEPT !.fields = r.fields]
    /\ field' = k
    /\ ncalls' = ncalls + 1
    /\ UNCHANGED <<fs, pc, option, ret, missed>>
    /\ UNCHANGED buildVars
    /\ UNCHANGED projectVars
    /\ UNCHANGED loadVars

\* The records passed by the calls after the first: a key found nowhere
\* alone or in a list, under formats that resolve it, one that does not,
\* one with no case, and under no declared format.
LaterRecords ==
    {Declaring("f" :> v, "f", fmt) :
        v \in {StringValue("y"), ListValue(<<"x", "y">>)},
        fmt \in {"tag", "object", "shorttext", "unrecognized"}}
    \cup {Declaring("f" :> ListValue(<<"x", "y">>), "g", "tag")}

NextDecode ==
    \E data \in (IF ncalls = 0 THEN DecodeRecords ELSE LaterRecords) :
        Decode(data, "f")

SpecDecode == InitDecode /\ [][NextDecode]_vars

-----------------------------------------------------------------------------
(* Specification SpecProject: proto_to_csv as build_csv calls it, one record *)
(* a step, on the index build_cache returned and the objects that loaded.    *)

ObjStemOrder == <<"o1", "o2", "o3", "o4">>

\* The relations collection: without 'Object type', with it, with it and Cost.
ProjectRelations ==
    {"r2" :> RecordFile(RelationMessage("Cost", "k2")),
     "r1" :> RecordFile(RelationMessage("Object type", "k1")),
     ("r1" :> RecordFile(RelationMessage("Object type", "k1")))
         @@ ("r2" :> RecordFile(RelationMessage("Cost", "k2")))}

\* The 'Object type' part of an object record: none, or a reference to the
\* type t1 (named A), to t2 (named B) or to zz (no such record).
TypeParts ==
    {[fields |-> EmptyDict, relationLinks |-> <<>>]}
        \cup {[fields |-> "k1" :> StringValue(t),
               relationLinks |-> <<[key |-> "k1", format |-> "object"]>>] :
                 t \in {"t1", "t2", "zz"}}

\* The other fields of an object record: none, or a name, a tag list under
\* the key of Cost and a field of a format read_data has no case for.
OtherParts ==
    {[fields |-> EmptyDict, relationLinks |-> <<>>],
     [fields |-> ("name" :> StringValue("n"))
                     @@ ("k2" :> ListValue(<<"x", "zz">>))
                     @@ ("k3" :> StringValue("v")),
      relationLinks |-> <<[key |-> "name", format |-> "shorttext"],
                          [key |-> "k2", format |-> "tag"],
                          [key |-> "k3", format |-> "unrecognized"]>>]}

ObjectMessages ==
    {[key |-> "", fields |-> tp.fields @@ op.fields,
      relationLinks |-> tp.relationLinks \o op.relationLinks] :
        tp \in TypeParts, op \in OtherParts}

TypeFilters == {NoList, ListOf(<<"A">>), ListOf(<<"A", "">>)}
FieldFilters == {NoList, ListOf(<<"name", "Cost">>), ListOf(<<"Object type">>)}

ProjectTree(rels, objs) ==
    [types |-> ("t1" :> RecordFile(NamedMessage("A")))
                   @@ ("t2" :> RecordFile(NamedMessage("B"))),
     relations |-> rels,
     relationsOptions |-> "x" :> RecordFile(NamedMessage("Red")),
     objects |-> [s \in {ObjStemOrder[i] : i \in DOMAIN objs} |->
                     RecordFile(objs[CHOOSE i \in DOMAIN objs : ObjStemOrder[i] = s])]]

InitProject ==
    /\ \E rels \in ProjectRelations, objs \in SeqsUpTo(ObjectMessages, MaxRecords) :
           fs = ProjectTree(rels, objs)
    /\ unknown_types = EmptyDict
    /\ unknown_options = EmptyDict
    /\ walk = Descending(fs)
    /\ ~build_cache(fs, walk).raised
    /\ my_cache = build_cache(fs, walk).cache
    /\ obj = 0
    /\ files = <<>>
    /\ dict1 = EmptyDict
    /\ dict2 = EmptyDict
    /\ indexed = <<>>
    /\ rewalk = <<>>
    /\ rebuilt = EmptyDict
    /\ NoLoad
    /\ NoCall
    /\ NoDecode
    /\ messages = LoadMessages(fs, SortedFiles(walk, "objects"))
    /\ loaded = messages
    /\ types_to_extract \in TypeFilters
    /\ fields_to_extract \in FieldFilters
    /\ pc = "p2c"
    /\ ridx = 0
    /\ df = <<>>
    /\ csv = NoFile
    /\ exported = <<>>
    /\ decoded = {}

\* Lines 186-192: df = pd.DataFrame(), then the test on 'Object type'.
P2CStart ==
    /\ pc = "p2c"
    /\ pc' = proto_to_csv_start(my_cache).pc
    /\ ridx' = 1
    /\ df' = <<>>
    /\ UNCHANGED <<fs, unknown_types, unknown_options, messages,
                   types_to_extract, fields_to_extract, csv, loaded, exported,
                   decoded>>
    /\ UNCHANGED <<callVars, buildVars, decodeVars>>
    /\ UNCHANGED loadVars

\* Lines 194-208: one iteration of "for proto_data in proto_data_list".
\* The keys of the fields map come in no specified order, so when two of
\* them give one column the row keeps the value of either.
P2CRecord ==
    /\ pc = "p2c_loop"
    /\ ridx <= Len(messages)
    /\ LET objtyperel == proto_to_csv_start(my_cache).objtyperel
           data0 == messages[ridx]
           t == read_data(data0, objtyperel, fs, unknown_types, unknown_options)
           filtered == types_to_extract.given
           data == IF filtered THEN [data0 EXCEPT !.fields = t.fields] ELSE data0
           ut == IF filtered THEN t.unknown_types ELSE unknown_types
           uo == IF filtered THEN t.unknown_options ELSE unknown_options
           asked == IF filtered THEN {<<ridx, objtyperel, "filter">>} ELSE {}
       IN  IF filtered /\ ~PassesTypeFilter(t.ret, types_to_extract)
           THEN /\ messages' = [messages EXCEPT ![ridx] = data]
                /\ unknown_types' = ut
                /\ unknown_options' = uo
                /\ decoded' = decoded \cup asked
                /\ UNCHANGED <<df, exported>>
           ELSE LET kept == RowKeys(data, my_cache, fields_to_extract)
                    cols == {ColumnOf(my_cache, i) : i \in kept}
                    after == DecodeEach(data, kept, fs, ut, uo)
                IN  /\ \E last \in [cols -> kept] :
                          /\ \A c \in cols : ColumnOf(my_cache, last[c]) = c
                          /\ df' = Append(df,
                                 [c \in cols |->
                                     read_data(data, last[c], fs, ut, uo).ret])
                    /\ messages' = [messages EXCEPT ![ridx] = data]
                    /\ unknown_types' = after.unknown_types
                    /\ unknown_options' = after.unknown_options
                    /\ decoded' = decoded \cup asked
                                      \cup {<<ridx, i, "row">> : i \in kept}
                    /\ exported' = Append(exported, ridx)
    /\ ridx' = ridx + 1
    /\ UNCHANGED <<fs, pc, types_to_extract, fields_to_extract, csv, loaded>>
    /\ UNCHANGED <<callVars, buildVars, decodeVars>>
    /\ UNCHANGED loadVars

\* Line 210: df.to_csv(csv_file_path), after the last record.
P2CWrite ==
    /\ pc = "p2c_loop"
    /\ ridx > Len(messages)
    /\ csv' = [written |-> TRUE, rows |-> df]
    /\ pc' = "p2c_done"
    /\ UNCHANGED <<fs, unknown_types, unknown_options, messages,
                   types_to_extract, fields_to_extract, ridx, df, loaded,
                   exported, decoded>>
    /\ UNCHANGED <<callVars, buildVars, decodeVars>>
    /\ UNCHANGED loadVars

NextProject == P2CStart \/ P2CRecord \/ P2CWrite

SpecProject == InitProject /\ [][NextProject]_vars

-----------------------------------------------------------------------------
(* Claims about read_rel_option, checked under SpecResolve. *)

\* The probe order the specification fixes.
FixedOrder == <<"relationsOptions", "objects", "relations", "types">>

\* C1: for a non-empty key, read_rel_option returns the name field of the
\* record from the first collection, in the order relationsOptions, objects,
\* relations, types, in which the key loads, whatever later collections hold.
C1_FirstCollectionWins ==
    (ncalls > 0 /\ option # "") =>
        \A i \in 1..Len(FixedOrder) :
            (/\ Loads(fs, FixedOrder[i], option)
             /\ \A j \in 1..(i - 1) : ~Loads(fs, FixedOrder[j], option))
            => ret = NameOf(fs[FixedOrder[i]][option].msg)

\* A call with a key that loads in objects and in types under different
\* names, and not in relationsOptions, returned the objects name.
C1_Witness ==
    /\ ncalls > 0
    /\ option = "x"
    /\ ~Loads(fs, "relationsOptions", "x")
    /\ Loads(fs, "objects", "x")
    /\ Loads(fs, "types", "x")
    /\ NameOf(fs["objects"]["x"].msg) = "Red"
    /\ NameOf(fs["types"]["x"].msg) = "Blue"
    /\ ret = "Red"

\* The key of the step's call is found in none of the four collections.
FoundNowhere(k) == k # "" /\ \A d \in Dirs : ~Loads(fs, d, k)

C2_Step ==
    LET k == option'
    IN  IF FoundNowhere(k)
        THEN /\ ret' = ""
             /\ k \in DOMAIN unknown_options'
             /\ unknown_options'[k] = DictGet(unknown_options, k, 0) + 1
             /\ DOMAIN unknown_options' = DOMAIN unknown_options \cup {k}
             /\ \A j \in DOMAIN unknown_options :
                    j # k => unknown_options'[j] = unknown_options[j]
             /\ unknown_types' = unknown_types
        ELSE /\ unknown_options' = unknown_options
             /\ unknown_types' = unknown_types

C2_Counts ==
    /\ DOMAIN unknown_options \subseteq ResolveKeys \ {""}
    /\ \A k \in ResolveKeys : DictGet(unknown_options, k, 0) = missed[k]

\* C2: a call with a non-empty key found in none of the four collections
\* returns "" and adds exactly one to unknown_options[key]; every other call
\* changes no counter; so unknown_options[k] always equals the number of
\* calls made with k that found it nowhere.
C2_MissCounted == [][C2_Step]_vars /\ []C2_Counts

\* The same missing key was resolved twice and is counted twice.
C2_Witness ==
    /\ ncalls = 2
    /\ option = "y"
    /\ ret = ""
    /\ missed["y"] = 2
    /\ DictGet(unknown_options, "y", 0) = 2

-----------------------------------------------------------------------------
(* Claims about build_cache, checked under SpecBuild. *)

\* The step visits a relation file that loads.
VisitsRelation ==
    /\ pc = "build"
    /\ files # <<>>
    /\ Collections[obj] = "relations"
    /\ Loads(fs, "relations", Head(files))

C7_Step ==
    VisitsRelation =>
        LET m == fs["relations"][Head(files)].msg
            n == NameOf(m)
            taken(x) == x \in DOMAIN dict1
            least == CHOOSE i \in 1..(Cardinality(DOMAIN dict1) + 1) :
                        /\ ~taken(n \o Str(i))
                        /\ \A j \in 1..(i - 1) : taken(n \o Str(j))
            chosen == IF taken(n) THEN n \o Str(least) ELSE n
        IN  /\ ~taken(chosen)
            /\ DOMAIN dict1' = DOMAIN dict1 \cup {chosen}
            /\ dict1'[chosen] = m.key
            /\ \A x \in DOMAIN dict1 : dict1'[x] = dict1[x]
            /\ m.key \in DOMAIN dict2'
            /\ dict2'[m.key] = chosen

\* C7: a relation record is indexed under its name when that is not yet a
\* key of relations, else under name + str(i) for the smallest positive i
\* giving an unused key; relations[chosen] is its internal key,
\* revrel[key] the chosen name, and no existing relations entry changes.
C7_SmallestFreeSuffix == [][C7_Step]_vars

\* A record named A was indexed as A2, past an A1 held by a record that is
\* itself named A1.
C7_Witness ==
    \E p, q \in DOMAIN indexed :
        /\ q < p
        /\ indexed[q].base = "A1"
        /\ indexed[q].name = "A1"
        /\ indexed[p].base = "A"
        /\ indexed[p].name = "A2"

\* How many relation records visited before position p carry the same name.
EarlierSame(p) ==
    Cardinality({q \in 1..(p - 1) : indexed[q].base = indexed[p].base})

\* The suffix i with which the record at p was indexed as base + str(i).
SuffixAt(p) ==
    CHOOSE i \in 1..Len(indexed) : indexed[p].name = indexed[p].base \o Str(i)

\* C8 as stated: the k-th later record sharing a base name N is indexed as
\* N followed by k, whatever other relation names are present.
C8_KthGetsK ==
    \A p \in DOMAIN indexed :
        EarlierSame(p) >= 1 =>
            indexed[p].name = indexed[p].base \o Str(EarlierSame(p))

\* No record of another base name, visited before p, holds the base name of
\* p or that name followed by a number.
NoForeignHolder(p) ==
    \A q \in 1..(p - 1) :
        indexed[q].base # indexed[p].base =>
            /\ indexed[q].name # indexed[p].base
            /\ \A j \in 1..Len(indexed) :
                   indexed[q].name # indexed[p].base \o Str(j)

\* C8 amended: the k-th later record sharing a base name N is indexed as N
\* followed by a positive integer that is at least k, the suffixes of one
\* base name strictly increase in visiting order, and the suffix is exactly
\* k when no earlier record of another base name is indexed as N or as N
\* followed by a number.
C8_SuffixesIncrease ==
    \A p \in DOMAIN indexed :
        EarlierSame(p) >= 1 =>
            /\ \E i \in EarlierSame(p)..Len(indexed) :
                   indexed[p].name = indexed[p].base \o Str(i)
            /\ \A q \in 1..(p - 1) :
                   (indexed[q].base = indexed[p].base /\ EarlierSame(q) >= 1)
                       => SuffixAt(q) < SuffixAt(p)
            /\ NoForeignHolder(p) =>
                   indexed[p].name = indexed[p].base \o Str(EarlierSame(p))

\* Three records named A, with no other holder of A-names: the third is A2.
C8_Witness ==
    /\ Len(indexed) = 3
    /\ \A p \in 1..3 : indexed[p].base = "A"
    /\ indexed[2].name = "A1"
    /\ indexed[3].name = "A2"

\* Every entry k -> n of d2 has the entry n -> k in d1.
PointsBack(d1, d2) ==
    \A k \in DOMAIN d2 : d2[k] \in DOMAIN d1 /\ d1[d2[k]] = k

\* C9: after every step of build_cache and in the index it returns, every
\* revrel entry k -> n has the relations entry n -> k.
C9_RevrelPointsBack ==
    /\ (obj >= 1 /\ Collections[obj] = "relations") => PointsBack(dict1, dict2)
    /\ "revrel" \in DOMAIN my_cache =>
           PointsBack(my_cache["relations"], my_cache["revrel"])

\* The finished index of three records of which two share a name and two
\* share an internal key.
C9_Witness ==
    /\ pc = "built"
    /\ Len(indexed) = 3
    /\ indexed[1].base = indexed[2].base
    /\ indexed[1].key # indexed[2].key
    /\ indexed[2].key = indexed[3].key
    /\ indexed[2].base # indexed[3].base

\* The stems of a collection whose files load.
Loadable(dir) == {s \in DOMAIN fs[dir] : Loads(fs, dir, s)}

\* C10: a file of types, relations or objects that does not load is skipped:
\* build_cache is not aborted, and it returns the entries of the records
\* that load and no others.
C10_UnloadableSkipped ==
    /\ pc # "raised"
    /\ pc = "built" =>
           /\ DOMAIN my_cache["types"] = Loadable("types")
           /\ DOMAIN my_cache["objects"] = Loadable("objects")
           /\ Len(indexed) = Cardinality(Loadable("relations"))

-----------------------------------------------------------------------------
(* Claims about read_data, checked under SpecDecode. *)

\* The name a reference key resolves to: the name of the record in the
\* first collection of the fixed order that holds the key, else "".
ResolvedName(k) ==
    IF k = "" \/ \A i \in 1..Len(FixedOrder) : ~Loads(fs, FixedOrder[i], k)
    THEN ""
    ELSE LET i == CHOOSE i \in 1..Len(FixedOrder) :
                      /\ Loads(fs, FixedOrder[i], k)
                      /\ \A j \in 1..(i - 1) : ~Loads(fs, FixedOrder[j], k)
         IN  NameOf(fs[FixedOrder[i]][k].msg)

\* The strings of a sequence joined by ", ".
RECURSIVE JoinStrings(_)
JoinStrings(names) ==
    IF names = <<>> THEN ""
    ELSE IF Len(names) = 1 THEN names[1]
    ELSE names[1] \o ", " \o JoinStrings(Tail(names))

NonEmpty(str) == str # ""

\* The format the decoded record declares for the decoded field, "" if none.
DeclaredFormat ==
    IF \E i \in DOMAIN proto_data.relationLinks :
           proto_data.relationLinks[i].key = field
    THEN LET i == CHOOSE i \in DOMAIN proto_data.relationLinks :
                      /\ proto_data.relationLinks[i].key = field
                      /\ \A j \in 1..(i - 1) : proto_data.relationLinks[j].key # field
         IN  proto_data.relationLinks[i].format
    ELSE ""

\* The reference keys of the decoded field's list.
DecodedList ==
    LET l == FieldsGet(proto_data.fields, field).list_value
    IN  [i \in DOMAIN l |-> l[i].string_value]

\* C3: a status or tag field holding a list of reference keys decodes to the
\* names of the entries that resolve to a non-empty name, in list order,
\* joined by ", "; entries resolving to "" leave no segment and no separator.
C3_EmptiesDropped ==
    (ncalls > 0 /\ DeclaredFormat \in {"status", "tag"}) =>
        value = PyStr(JoinStrings(SelectSeq(
                    [i \in DOMAIN DecodedList |-> ResolvedName(DecodedList[i])],
                    NonEmpty)))

-----------------------------------------------------------------------------
(* Claims about proto_to_csv, checked under SpecProject. *)

\* The internal key the index gives for 'Object type'.
ObjectTypeKey == my_cache["relations"]["Object type"]

\* The decoded 'Object type' value of the i-th record as it was loaded.
TypeValue(i) == read_data(loaded[i], ObjectTypeKey, fs, EmptyDict, EmptyDict).ret

\* The records whose decoded 'Object type' is a member of the type filter.
Selected ==
    {i \in DOMAIN loaded :
        /\ TypeValue(i).t = "str"
        /\ \E j \in DOMAIN types_to_extract.items :
               types_to_extract.items[j] = TypeValue(i).s}

\* C4: with a type filter, the table written holds one row for each record
\* whose decoded 'Object type' is in the filter, in input order, each row
\* made of decoded fields of its record, and no row for any other record.
C4_TypeFilterExact ==
    (pc = "p2c_done" /\ types_to_extract.given) =>
        /\ csv.written
        /\ Len(csv.rows) = Len(exported)
        /\ {exported[j] : j \in DOMAIN exported} = Selected
        /\ \A j \in 1..(Len(exported) - 1) : exported[j] < exported[j + 1]
        /\ \A j \in DOMAIN exported :
               \A c \in DOMAIN csv.rows[j] :
                   \E k \in DOMAIN messages[exported[j]].fields :
                       /\ ColumnOf(my_cache, k) = c
                       /\ csv.rows[j][c] =
                            read_data(loaded[exported[j]], k, fs, EmptyDict, EmptyDict).ret

\* Records of types A, B, A under the filter [A]: rows for the first and
\* the third, in that order.
C4_Witness ==
    /\ pc = "p2c_done"
    /\ types_to_extract = ListOf(<<"A">>)
    /\ Len(loaded) = 3
    /\ TypeValue(1).s = "A"
    /\ TypeValue(2).s = "B"
    /\ TypeValue(3).s = "A"
    /\ exported = <<1, 3>>
    /\ Len(csv.rows) = 2

\* The display name of a field key: its revrel entry, else the key itself.
DisplayName(k) ==
    IF k \in DOMAIN my_cache["revrel"] THEN my_cache["revrel"][k] ELSE k

InAllowlist(c) ==
    fields_to_extract.given =>
        \E j \in DOMAIN fields_to_extract.items : fields_to_extract.items[j] = c

\* C5: the columns of a row are exactly the display names of the field keys
\* present on its source record that the field allowlist admits.
C5_ColumnsFromFields ==
    \A j \in DOMAIN df :
        DOMAIN df[j] =
            {c \in {DisplayName(k) : k \in DOMAIN loaded[exported[j]].fields} :
                InAllowlist(c)}

\* C6: without a relations entry for 'Object type', proto_to_csv collects
\* no row, writes no file, decodes no field and changes no counter,
\* whatever the two filters are.
C6_NoObjectTypeNoTable ==
    "Object type" \notin DOMAIN my_cache["relations"] =>
        /\ pc \in {"p2c", "p2c_returned"}
        /\ df = <<>>
        /\ ~csv.written
        /\ decoded = {}
        /\ messages = loaded
        /\ unknown_types = EmptyDict
        /\ unknown_options = EmptyDict

\* proto_to_csv returned at the test, with records to export and no filter.
C6_Witness ==
    /\ pc = "p2c_returned"
    /\ "Object type" \notin DOMAIN my_cache["relations"]
    /\ Len(messages) = 2
    /\ ~types_to_extract.given
    /\ ~fields_to_extract.given
    /\ ~csv.written

-----------------------------------------------------------------------------
(* Specification SpecRebuild: build_cache called twice on one unchanged  *)
(* tree, os.walk listing the files in any order each time.               *)

RebuildFiles ==
    {AbsentFile}
        \cup {RecordFile(RelationMessage(n, k)) : n \in {"A", "A1"}, k \in RelKeys}

RebuildTrees ==
    {TreeOf([types |-> [s \in {"t1"} |-> RecordFile(NamedMessage("T"))],
             relations |-> r,
             relationsOptions |-> [s \in {} |-> AbsentFile],
             objects |-> [s \in {"o1"} |-> RecordFile(NamedMessage("O"))]]) :
        r \in [RelStems -> RebuildFiles]}

InitRebuild ==
    /\ fs \in RebuildTrees
    /\ walk \in Listings(fs)
    /\ unknown_types = EmptyDict
    /\ unknown_options = EmptyDict
    /\ pc = "unbuilt"
    /\ NoCall
    /\ NoDecode
    /\ NoProject
    /\ NoLoad
    /\ my_cache = EmptyDict
    /\ obj = 0
    /\ files = <<>>
    /\ dict1 = EmptyDict
    /\ dict2 = EmptyDict
    /\ indexed = <<>>
    /\ rewalk = <<>>
    /\ rebuilt = EmptyDict

\* The first call of build_cache, os.walk listing the files as walk does.
Build ==
    /\ pc = "unbuilt"
    /\ LET r == build_cache(fs, walk)
       IN  /\ ~r.raised
           /\ my_cache' = r.cache
    /\ pc' = "built"
    /\ UNCHANGED <<fs, unknown_types, unknown_options, obj, files, dict1, dict2,
                   indexed, walk, rewalk, rebuilt>>
    /\ UNCHANGED <<callVars, decodeVars, projectVars, loadVars>>

\* A second call on the same tree, os.walk listing the files in some order.
Rebuild ==
    /\ pc = "built"
    /\ \E w \in Listings(fs) :
           LET r == build_cache(fs, w)
           IN  /\ ~r.raised
               /\ rewalk' = w
               /\ rebuilt' = r.cache
    /\ pc' = "rebuilt"
    /\ UNCHANGED <<fs, unknown_types, unknown_options, my_cache, obj, files,
                   dict1, dict2, indexed, walk>>
    /\ UNCHANGED <<callVars, decodeVars, projectVars, loadVars>>

NextRebuild == Build \/ Rebuild

SpecRebuild == InitRebuild /\ [][NextRebuild]_vars

-----------------------------------------------------------------------------
(* Claims about rebuilding, checked under SpecRebuild. *)

\* C11: building the index twice over the same unchanged tree yields the
\* same types, relations, objects and revrel maps, whatever order the file
\* system lists the files in either time; the index, collision suffixes
\* included, is the one got by visiting the files in file-name order.
C11_SameIndexWhateverOrder ==
    /\ pc \in {"built", "rebuilt"} => my_cache = build_cache(fs, Ascending(fs)).cache
    /\ pc = "rebuilt" =>
           \A m \in {"types", "relations", "objects", "revrel"} :
               /\ m \in DOMAIN my_cache
               /\ m \in DOMAIN rebuilt
               /\ rebuilt[m] = my_cache[m]

\* Two builds that met different listings of three relation records named
\* A, A1 and A: both index the last file as A2.
C11_Witness ==
    /\ pc = "rebuilt"
    /\ walk["relations"] = <<"r3", "r1", "r2">>
    /\ rewalk["relations"] = <<"r2", "r3", "r1">>
    /\ NameOf(fs["relations"]["r1"].msg) = "A"
    /\ NameOf(fs["relations"]["r2"].msg) = "A1"
    /\ NameOf(fs["relations"]["r3"].msg) = "A"
    /\ fs["relations"]["r1"].msg.key = "k1"
    /\ fs["relations"]["r2"].msg.key = "k1"
    /\ fs["relations"]["r3"].msg.key = "k2"
    /\ rebuilt["revrel"]["k2"] = "A2"
    /\ my_cache["revrel"]["k2"] = "A2"

-----------------------------------------------------------------------------
(* Specification SpecLoad: load_single_message_from_file called on the   *)
(* paths of a tree whose files are missing, cut short, corrupt or whole. *)

LoadStems == {"x", "y"}

LoadFiles ==
    {AbsentFile, CorruptFile, TruncatedFile(NamedMessage("Red")),
     RecordFile(NamedMessage("Red")), RecordFile(NamedMessage("Blue"))}

InitLoad ==
    /\ \E f \in [Dirs -> [{"x"} -> LoadFiles]] : fs = TreeOf(f)
    /\ unknown_types = EmptyDict
    /\ unknown_options = EmptyDict
    /\ pc = "load"
    /\ NoCall
    /\ NoBuild
    /\ NoDecode
    /\ NoProject
    /\ NoLoad

\* One call; an exception no handler catches ends the run.
Load(dir, stem) ==
    /\ pc = "load"
    /\ filepath' = <<dir, stem>>
    /\ message' = load_single_message_from_file(fs, dir, stem)
    /\ pc' = IF message'.exc # "" THEN "raised" ELSE pc
    /\ UNCHANGED <<fs, unknown_types, unknown_options>>
    /\ UNCHANGED <<callVars, buildVars, decodeVars, projectVars>>

NextLoad == \E dir \in Dirs, stem \in LoadStems : Load(dir, stem)

SpecLoad == InitLoad /\ [][NextLoad]_vars

-----------------------------------------------------------------------------
(* Claims about the record loader, checked under SpecLoad. *)

\* The file at the path of the last call.
FileAt(p) ==
    IF p[2] \in DOMAIN fs[p[1]] THEN fs[p[1]][p[2]] ELSE AbsentFile

\* C12: the loader never raises; for a file that is there and parses it
\* returns the whole record, and for a missing file and for one that does
\* not parse it returns the same absent result, never the part parsed.
C12_LoaderTotal ==
    /\ pc # "raised"
    /\ filepath # <<>> =>
           /\ message.exc = ""
           /\ FileAt(filepath).st = "ok" => message = Some(FileAt(filepath).msg)
           /\ FileAt(filepath).st # "ok" => message = None

\* A call on a file cut short after its name field returned the absent
\* result, in a tree that also misses a file.
C12_Witness ==
    /\ filepath = <<"objects", "x">>
    /\ FileAt(filepath) = TruncatedFile(NamedMessage("Red"))
    /\ "x" \notin DOMAIN fs["types"]
    /\ message = None
    /\ pc = "load"

-----------------------------------------------------------------------------
(* Claims about one read_data call, checked under SpecDecode: the step   *)
(* from the state before the call to the state the call leaves.          *)

\* The formats of the dispatch table.
RecognizedFormats ==
    {"longtext", "shorttext", "number", "status", "tag", "object", "date",
     "file", "checkbox", "url", "email", "phone", "emoji", "relations"}

\* Whether the record declares a format for key k, and the first it declares.
Declares(data, k) ==
    \E i \in DOMAIN data.relationLinks : data.relationLinks[i].key = k

FormatOf(data, k) ==
    LET i == CHOOSE i \in DOMAIN data.relationLinks :
                 /\ data.relationLinks[i].key = k
                 /\ \A j \in 1..(i - 1) : data.relationLinks[j].key # k
    IN  data.relationLinks[i].format

\* A step that is a read_data call.
IsDecode == ncalls' = ncalls + 1

\* d with one more under key k, every other entry as it was.
OneMore(d, k) ==
    [j \in DOMAIN d \cup {k} |->
        IF j = k THEN (IF k \in DOMAIN d THEN d[k] + 1 ELSE 1) ELSE d[j]]

C13_Step ==
    IsDecode =>
        IF Declares(proto_data', field')
              /\ FormatOf(proto_data', field') \notin RecognizedFormats
        THEN /\ unknown_types' = OneMore(unknown_types, field')
             /\ unknown_options' = unknown_options
             /\ value' = PyStr("")
             /\ pc' = pc
        ELSE unknown_types' = unknown_types

\* C13: a read_data call that finds a declared format outside the
\* recognized set adds exactly one to unknown_types[field], leaves
\* unknown_options and every other unknown_types entry as they were,
\* returns "" and the run goes on; a call that finds a recognized format,
\* or none, leaves unknown_types as it was.
C13_UnrecognizedCounted == [][C13_Step]_vars

\* The second call on a field of unrecognized format: its count is 2 and
\* nothing was recorded in unknown_options, though the field holds a key
\* that resolves nowhere.
C13_Witness ==
    /\ ncalls = 2
    /\ Declares(proto_data, field)
    /\ FormatOf(proto_data, field) = "unrecognized"
    /\ FieldsGet(proto_data.fields, field).string_value = "y"
    /\ \A d \in Dirs : ~Loads(fs, d, "y")
    /\ unknown_types = "f" :> 2
    /\ unknown_options = EmptyDict
    /\ value = PyStr("")

\* A call on a field for which the record declares no format.
C14_Step ==
    (IsDecode /\ ~Declares(proto_data', field')) =>
        /\ value' = PyStr("")
        /\ unknown_types' = unknown_types
        /\ unknown_options' = unknown_options

\* C14: when the record's declared-format list has no entry for the field
\* key, read_data returns "" whatever the field holds, resolves no
\* reference, and leaves unknown_types and unknown_options as they were.
C14_UndeclaredIsEmpty == [][C14_Step]_vars

\* An undeclared field that holds a list of keys, one of them found in no
\* collection, while the record declares the format tag for another key.
C14_Witness ==
    /\ ncalls > 0
    /\ ~Declares(proto_data, field)
    /\ proto_data.relationLinks = <<[key |-> "g", format |-> "tag"]>>
    /\ FieldsGet(proto_data.fields, field) = ListValue(<<"x", "y">>)
    /\ \A d \in Dirs : ~Loads(fs, d, "y")
    /\ Loads(fs, "relationsOptions", "x")
    /\ value = PyStr("")
    /\ unknown_options = EmptyDict
    /\ unknown_types = EmptyDict

\* The record with format fmt declared for key k in place of what it declares.
Redeclared(data, k, fmt) ==
    [data EXCEPT !.relationLinks =
        [i \in DOMAIN data.relationLinks |->
            IF data.relationLinks[i].key = k
            THEN [key |-> k, format |-> fmt] ELSE data.relationLinks[i]]]

\* unknown_options after resolving the one reference key k.
AfterResolving(uo, k) ==
    IF k # "" /\ \A d \in Dirs : ~Loads(fs, d, k) THEN OneMore(uo, k) ELSE uo

C15_Step ==
    (IsDecode /\ Declares(proto_data', field')
        /\ FormatOf(proto_data', field') = "object") =>
        LET fld == FieldsGet(proto_data'.fields, field')
            asTag == read_data(Redeclared(proto_data', field', "tag"), field', fs,
                               unknown_types, unknown_options)
        IN  /\ unknown_types' = unknown_types
            /\ IF fld.list_value # <<>>
               THEN /\ value' = asTag.ret
                    /\ unknown_options' = asTag.unknown_options
               ELSE /\ value' = PyStr(ResolvedName(fld.string_value))
                    /\ unknown_options' = AfterResolving(unknown_options, fld.string_value)
            /\ (fld.list_value = <<>> /\ fld.string_value = "") =>
                   /\ value' = PyStr("")
                   /\ unknown_options' = unknown_options

-----------------------------------------------------------------------------
(* Claims about the records proto_to_csv is given, checked under          *)
(* SpecProject.                                                           *)

\* C16: records are not mutated after load: at every point of a
\* proto_to_csv run each record has the field mapping and the
\* declared-format list it had when loaded, also after the type filter
\* decoded "Object type" on a record that lacks that field.
C16_RecordsNotMutated ==
    /\ Len(messages) = Len(loaded)
    /\ \A i \in DOMAIN messages :
           /\ messages[i].fields = loaded[i].fields
           /\ messages[i].relationLinks = loaded[i].relationLinks

-----------------------------------------------------------------------------
(* Claims about revrel, checked under SpecBuild. *)

\* No two distinct keys of d map to the same value.
Injective(d) == \A j, k \in DOMAIN d : d[j] = d[k] => j = k

\* C17: revrel is injective, while build_cache fills it and in the index
\* returned, whatever names and keys the relation records share; so two
\* field keys that both have revrel entries never get the same column.
C17_RevrelInjective ==
    /\ (obj >= 1 /\ Collections[obj] = "relations") => Injective(dict2)
    /\ "revrel" \in DOMAIN my_cache =>
           /\ Injective(my_cache["revrel"])
           /\ \A j, k \in DOMAIN my_cache["revrel"] :
                  j # k => ColumnOf(my_cache, j) # ColumnOf(my_cache, k)

\* The finished index of three records that all carry the name A, the
\* first and the last under one key: revrel holds two keys, named A1 and A2.
C17_Witness ==
    /\ pc = "built"
    /\ Len(indexed) = 3
    /\ \A i \in 1..3 : indexed[i].base = "A"
    /\ indexed[1].key = "k1"
    /\ indexed[2].key = "k2"
    /\ indexed[3].key = "k1"
    /\ my_cache["revrel"] = ("k1" :> "A2") @@ ("k2" :> "A1")

-----------------------------------------------------------------------------
(* Claims about which fields proto_to_csv decodes, checked under          *)
(* SpecProject.                                                           *)

\* The row of df made from the record at position r, 0 if there is none.
RowOf(r) ==
    IF \E j \in DOMAIN exported : exported[j] = r
    THEN CHOOSE j \in DOMAIN exported : exported[j] = r
    ELSE 0

\* Both counters after the read_data calls of a set of (record, key, use)
\* triples, made on the records as loaded.
RECURSIVE CountersAfter(_, _, _)
CountersAfter(calls, ut, uo) ==
    IF calls = {} THEN [unknown_types |-> ut, unknown_options |-> uo]
    ELSE LET c == CHOOSE c \in calls : TRUE
             r == read_data(loaded[c[1]], c[2], fs, ut, uo)
         IN  CountersAfter(calls \ {c}, r.unknown_types, r.unknown_options)

\* A decode the claim allows: the 'Object type' key decoded for the type
\* filter, or a field that the allowlist admits, of a record the type
\* filter lets through, whose column is in the row made from that record.
AllowedDecode(c) ==
    \/ /\ c[3] = "filter"
       /\ types_to_extract.given
       /\ "Object type" \in DOMAIN my_cache["relations"]
       /\ c[2] = ObjectTypeKey
    \/ /\ c[3] = "row"
       /\ RowOf(c[1]) # 0
       /\ types_to_extract.given => c[1] \in Selected
       /\ InAllowlist(DisplayName(c[2]))
       /\ DisplayName(c[2]) \in DOMAIN df[RowOf(c[1])]

\* C18: over a proto_to_csv run every read_data call is either the
\* 'Object type' decode of the type-filter test or the decode of a field
\* that is a column of an output row, and the two counters hold what those
\* calls add and nothing else: fields the allowlist removes, and the other
\* fields of records the type filter rejects, are not decoded.
C18_OnlyColumnsDecoded ==
    /\ \A c \in decoded : AllowedDecode(c)
    /\ LET n == CountersAfter(decoded, EmptyDict, EmptyDict)
       IN  /\ unknown_types = n.unknown_types
           /\ unknown_options = n.unknown_options

\* A finished run over two records that both hold a tag list with the
\* unknown key zz and a field of unrecognized format, under the type filter
\* [A] and the allowlist [name, Cost]: the record of type B was rejected,
\* the unrecognized field of the other was not decoded, and zz was counted
\* once.
C18_Witness ==
    /\ pc = "p2c_done"
    /\ types_to_extract = ListOf(<<"A">>)
    /\ fields_to_extract = ListOf(<<"name", "Cost">>)
    /\ Len(loaded) = 2
    /\ \A i \in 1..2 : {"k1", "k2", "k3"} \subseteq DOMAIN loaded[i].fields
    /\ TypeValue(1).s = "A"
    /\ TypeValue(2).s = "B"
    /\ exported = <<1>>
    /\ decoded = {<<1, "k1", "filter">>, <<2, "k1", "filter">>,
                  <<1, "name", "row">>, <<1, "k2", "row">>}
    /\ unknown_types = EmptyDict
    /\ unknown_options = "zz" :> 1

=============================================================================
